---- MODULE Spec2Model ----
(***************************************************************************)
(* A model of trino_server.py: the read-only query gate (validate_query),  *)
(* the result formatter (format_results) and the tool operations that open *)
(* a connection, run one or two statements and return one text block.      *)
(*                                                                         *)
(* A text is a sequence of one-character strings; the regular expressions  *)
(* of the source are modelled character by character.                      *)
(***************************************************************************)
EXTENDS Integers, Sequences, FiniteSets, TLC

\* ------------------------------------------------------------ characters

LowerLetters ==
  << "a", "b", "c", "d", "e", "f", "g", "h", "i", "j", "k", "l", "m",
     "n", "o", "p", "q", "r", "s", "t", "u", "v", "w", "x", "y", "z" >>

UpperLetters ==
  << "A", "B", "C", "D", "E", "F", "G", "H", "I", "J", "K", "L", "M",
     "N", "O", "P", "Q", "R", "S", "T", "U", "V", "W", "X", "Y", "Z" >>

DigitChars == {"0", "1", "2", "3", "4", "5", "6", "7", "8", "9"}

\* \w of the re module, on the characters the model uses
WordChars ==
  {LowerLetters[i] : i \in 1..26} \cup {UpperLetters[i] : i \in 1..26}
    \cup DigitChars \cup {"_"}

\* \s of the re module and the separators of str.split() / str.strip()
SpaceChars == {" ", "\t", "\n", "\r"}

\* str.upper() on one character
UpperTable ==
  [c \in {LowerLetters[i] : i \in 1..26} |->
     UpperLetters[CHOOSE i \in 1..26 : LowerLetters[i] = c]]

UpperChar(c) == IF c \in DOMAIN UpperTable THEN UpperTable[c] ELSE c

\* str.upper()
Upper(s) == [k \in 1..Len(s) |-> UpperChar(s[k])]

\* the characters of s at the positions listed in keep
Select(s, keep) == [k \in 1..Len(keep) |-> s[keep[k]]]

\* str.startswith(w)
StartsWith(s, w) == Len(w) <= Len(s) /\ SubSeq(s, 1, Len(w)) = w

\* the literal w occurs in s at position i
LitAt(s, i, w) == i + Len(w) - 1 <= Len(s) /\ SubSeq(s, i, i + Len(w) - 1) = w

\* ------------------------------------------------ validate_query: cleaning

\* the end of the line that holds position i: the next "\n", or Len(s)+1
RECURSIVE LineEnd(_, _)
LineEnd(s, i) ==
  IF i > Len(s) \/ s[i] = "\n" THEN i ELSE LineEnd(s, i + 1)

\* re.sub(r'--.*$', '', s, flags=re.MULTILINE): the positions that stay
RECURSIVE StripLineKeep(_, _)
StripLineKeep(s, i) ==
  IF i > Len(s) THEN << >>
  ELSE IF i < Len(s) /\ s[i] = "-" /\ s[i + 1] = "-"
       THEN StripLineKeep(s, LineEnd(s, i))
       ELSE << i >> \o StripLineKeep(s, i + 1)

StripLineComments(s) == Select(s, StripLineKeep(s, 1))

\* the first position j >= i where "*/" starts, or 0
RECURSIVE BlockClose(_, _)
BlockClose(s, j) ==
  IF j >= Len(s) THEN 0
  ELSE IF s[j] = "*" /\ s[j + 1] = "/" THEN j ELSE BlockClose(s, j + 1)

\* re.sub(r'/\*.*?\*/', '', s, flags=re.DOTALL): the positions that stay
RECURSIVE StripBlockKeep(_, _)
StripBlockKeep(s, i) ==
  IF i > Len(s) THEN << >>
  ELSE IF i < Len(s) /\ s[i] = "/" /\ s[i + 1] = "*" /\ BlockClose(s, i + 2) # 0
       THEN StripBlockKeep(s, BlockClose(s, i + 2) + 2)
       ELSE << i >> \o StripBlockKeep(s, i + 1)

StripBlockComments(s) == Select(s, StripBlockKeep(s, 1))

\* the first position >= i that holds no whitespace, or Len(s)+1
RECURSIVE SkipSpace(_, _)
SkipSpace(s, i) ==
  IF i > Len(s) \/ s[i] \notin SpaceChars THEN i ELSE SkipSpace(s, i + 1)

\* the first position >= i that holds whitespace, or Len(s)+1
RECURSIVE SkipNonSpace(_, _)
SkipNonSpace(s, i) ==
  IF i > Len(s) \/ s[i] \in SpaceChars THEN i ELSE SkipNonSpace(s, i + 1)

\* ' '.join(s.split()) from position i on; first: no word was written yet
RECURSIVE JoinSplitFrom(_, _, _)
JoinSplitFrom(s, i, first) ==
  LET b == SkipSpace(s, i)
      e == SkipNonSpace(s, b)
  IN IF b > Len(s) THEN << >>
     ELSE (IF first THEN << >> ELSE << " " >>)
            \o SubSeq(s, b, e - 1) \o JoinSplitFrom(s, e, FALSE)

NormalizeWhitespace(s) == JoinSplitFrom(s, 1, TRUE)

\* the last position <= i that holds no whitespace, or 0
RECURSIVE SkipSpaceBack(_, _)
SkipSpaceBack(s, i) ==
  IF i < 1 \/ s[i] \notin SpaceChars THEN i ELSE SkipSpaceBack(s, i - 1)

\* str.strip()
Strip(s) == SubSeq(s, SkipSpace(s, 1), SkipSpaceBack(s, Len(s)))

\* query_clean of validate_query, after its three cleaning statements
query_clean(query) ==
  NormalizeWhitespace(StripBlockComments(StripLineComments(query)))

\* query_upper of validate_query
query_upper(query) == Upper(query_clean(query))

\* -------------------------------------------- validate_query: the patterns

\* (TABLE|VIEW|SCHEMA|DATABASE)
ObjectKinds ==
  { << "T", "A", "B", "L", "E" >>,
    << "V", "I", "E", "W" >>,
    << "S", "C", "H", "E", "M", "A" >>,
    << "D", "A", "T", "A", "B", "A", "S", "E" >> }

\* forbidden_patterns, each \bfirst\s+last\b, or \bfirst\s+\w+\s+last\b
\* when mid is TRUE; last lists the alternatives of the last word
forbidden_patterns ==
  << [ first |-> << "I", "N", "S", "E", "R", "T" >>,
       mid |-> FALSE,
       last |-> { << "I", "N", "T", "O" >> } ],
     [ first |-> << "U", "P", "D", "A", "T", "E" >>,
       mid |-> TRUE,
       last |-> { << "S", "E", "T" >> } ],
     [ first |-> << "D", "E", "L", "E", "T", "E" >>,
       mid |-> FALSE,
       last |-> { << "F", "R", "O", "M" >> } ],
     [ first |-> << "C", "R", "E", "A", "T", "E" >>,
       mid |-> FALSE,
       last |-> ObjectKinds ],
     [ first |-> << "D", "R", "O", "P" >>,
       mid |-> FALSE,
       last |-> ObjectKinds ],
     [ first |-> << "A", "L", "T", "E", "R" >>,
       mid |-> FALSE,
       last |-> ObjectKinds ],
     [ first |-> << "M", "E", "R", "G", "E" >>,
       mid |-> FALSE,
       last |-> { << "I", "N", "T", "O" >> } ],
     [ first |-> << "T", "R", "U", "N", "C", "A", "T", "E" >>,
       mid |-> FALSE,
       last |-> { << "T", "A", "B", "L", "E" >> } ],
     [ first |-> << "G", "R", "A", "N", "T" >>,
       mid |-> TRUE,
       last |-> { << "O", "N" >> } ],
     [ first |-> << "R", "E", "V", "O", "K", "E" >>,
       mid |-> TRUE,
       last |-> { << "O", "N" >> } ] >>

\* allowed_starts
allowed_starts ==
  << << "S", "E", "L", "E", "C", "T" >>,
     << "W", "I", "T", "H" >>,
     << "S", "H", "O", "W" >>,
     << "D", "E", "S", "C", "R", "I", "B", "E" >>,
     << "D", "E", "S", "C" >>,
     << "E", "X", "P", "L", "A", "I", "N" >>,
     << "V", "A", "L", "U", "E", "S" >> >>

\* ------------------------------------------- validate_query: the matching

\* \b before position i of s: exactly one of s[i-1], s[i] is a word character
WordBoundary(s, i) ==
  (i > 1 /\ i - 1 <= Len(s) /\ s[i - 1] \in WordChars)
    # (i >= 1 /\ i <= Len(s) /\ s[i] \in WordChars)

\* the first position >= i that holds no word character, or Len(s)+1
RECURSIVE SkipWord(_, _)
SkipWord(s, i) ==
  IF i > Len(s) \/ s[i] \notin WordChars THEN i ELSE SkipWord(s, i + 1)

\* A match of pattern p that starts at position i of s: the position after
\* the match, or 0 when p does not match there.  \s+ and \w+ are greedy and
\* what follows each cannot match a character of its own class, so the
\* longest run is the only run the regular expression can take.
MatchEndAt(p, s, i) ==
  IF ~(WordBoundary(s, i) /\ LitAt(s, i, p.first)) THEN 0
  ELSE
    LET a == i + Len(p.first)
        b == SkipSpace(s, a)
        c == IF p.mid THEN SkipWord(s, b) ELSE b
        d == IF p.mid THEN SkipSpace(s, c) ELSE b
        hits == {w \in p.last : LitAt(s, d, w) /\ WordBoundary(s, d + Len(w))}
    IN IF b = a \/ (p.mid /\ (c = b \/ d = c)) \/ hits = {} THEN 0
       ELSE d + Len(CHOOSE w \in hits : TRUE)

\* re.search(pattern, s) finds a match
Search(p, s) == \E i \in 1..Len(s) : MatchEndAt(p, s, i) # 0

\* the loop over forbidden_patterns from pattern k on: TRUE when it returns
\* False from validate_query (some pattern matches)
RECURSIVE ForbiddenFrom(_, _)
ForbiddenFrom(s, k) ==
  IF k > Len(forbidden_patterns) THEN FALSE
  ELSE IF Search(forbidden_patterns[k], s) THEN TRUE
       ELSE ForbiddenFrom(s, k + 1)

\* any(s.startswith(keyword) for keyword in allowed_starts)
StartsAllowed(s) ==
  \E k \in 1..Len(allowed_starts) : StartsWith(s, allowed_starts[k])

\* the first position >= i that holds no "(", or Len(s)+1
RECURSIVE SkipParens(_, _)
SkipParens(s, i) ==
  IF i > Len(s) \/ s[i] # "(" THEN i ELSE SkipParens(s, i + 1)

\* inner_query: re.sub(r'^\s*\(+\s*', '', s) for an s that holds a "("
\* after its leading whitespace; otherwise the pattern does not match
inner_query(s) ==
  LET a == SkipSpace(s, 1)
      b == SkipParens(s, a)
      c == SkipSpace(s, b)
  IN IF b = a THEN s ELSE SubSeq(s, c, Len(s))

\* the prefix check of validate_query on query_upper
PrefixAllowed(upper) ==
  LET query_trimmed == Strip(upper)
  IN IF StartsWith(query_trimmed, << "(" >>)
     THEN StartsAllowed(inner_query(query_trimmed))
     ELSE StartsAllowed(query_trimmed)

\* validate_query without its loop over forbidden_patterns
validate_query_prefix_only(query) == PrefixAllowed(query_upper(query))

\* validate_query(query): TRUE is ALLOW, FALSE is REJECT
validate_query(query) ==
  LET upper == query_upper(query)
  IN IF ForbiddenFrom(upper, 1) THEN FALSE ELSE PrefixAllowed(upper)

\* ------------------------------------------------------ sample_table: limit

\* the value of a digit character
DigitValue(c) ==
  CASE c = "0" -> 0 [] c = "1" -> 1 [] c = "2" -> 2 [] c = "3" -> 3
    [] c = "4" -> 4 [] c = "5" -> 5 [] c = "6" -> 6 [] c = "7" -> 7
    [] c = "8" -> 8 [] c = "9" -> 9

\* the digits of an int() literal from position i on, after acc: digits with
\* single underscores between them; -1 when the text is no such literal
RECURSIVE DigitsFrom(_, _, _)
DigitsFrom(s, i, acc) ==
  IF i > Len(s) THEN acc
  ELSE IF s[i] \in DigitChars THEN DigitsFrom(s, i + 1, 10 * acc + DigitValue(s[i]))
  ELSE IF s[i] = "_" /\ i > 1 /\ s[i - 1] \in DigitChars
            /\ i < Len(s) /\ s[i + 1] \in DigitChars
       THEN DigitsFrom(s, i + 1, acc)
       ELSE -1

\* int(text): ok is FALSE where int() raises ValueError
ParseInt(text) ==
  LET t == Strip(text)
      signed == Len(t) > 0 /\ t[1] \in {"+", "-"}
      digits == IF signed THEN SubSeq(t, 2, Len(t)) ELSE t
      v == IF Len(digits) = 0 THEN -1 ELSE DigitsFrom(digits, 1, 0)
  IN IF v < 0 THEN [ok |-> FALSE, val |-> 0]
     ELSE [ok |-> TRUE, val |-> IF signed /\ t[1] = "-" THEN 0 - v ELSE v]

\* the most rows sample_table asks for
MaxSampleLimit == 100

\* the limit sample_table uses when the argument is empty or blank
DefaultSampleLimit == 10

\* limit_int without the clamp to MaxSampleLimit
sample_limit_unclamped(limit) ==
  IF Strip(limit) = << >> THEN [ok |-> TRUE, val |-> DefaultSampleLimit]
  ELSE ParseInt(limit)

\* limit_int of sample_table; ok is FALSE where it returns the
\* invalid-limit error
sample_limit(limit) ==
  IF Strip(limit) = << >> THEN [ok |-> TRUE, val |-> DefaultSampleLimit]
  ELSE LET p == ParseInt(limit)
       IN IF ~p.ok THEN p
          ELSE IF p.val > MaxSampleLimit THEN [ok |-> TRUE, val |-> MaxSampleLimit]
          ELSE p

\* ------------------------------------------------------------- the inputs

\* the longest run of whitespace between the words of a phrase
MaxWs == 2

\* the most opening parentheses a query starts with
MaxParens == 2

\* the longest limit argument built from LimitChars
MaxLimitLen == 3

\* rows a statement may return besides the counts around the row limit
MaxRows == 1

\* the concatenation of the texts of a sequence
RECURSIVE Cat(_)
Cat(parts) == IF parts = << >> THEN << >> ELSE Head(parts) \o Cat(Tail(parts))

\* n copies of the text s
RECURSIVE Repeat(_, _)
Repeat(s, n) == IF n = 0 THEN << >> ELSE s \o Repeat(s, n - 1)

\* the words joined by sep
RECURSIVE JoinWords(_, _)
JoinWords(words, sep) ==
  IF Len(words) = 1 THEN words[1]
  ELSE words[1] \o sep \o JoinWords(Tail(words), sep)

LowerTable ==
  [c \in {UpperLetters[i] : i \in 1..26} |->
     LowerLetters[CHOOSE i \in 1..26 : UpperLetters[i] = c]]

\* a text in lower case, or with every second letter in lower case
Lowered(s) == [k \in 1..Len(s) |-> IF s[k] \in DOMAIN LowerTable THEN LowerTable[s[k]] ELSE s[k]]
Mixed(s) == [k \in 1..Len(s) |-> IF k % 2 = 0 THEN Lowered(s)[k] ELSE s[k]]

\* the keywords a read-only statement starts with
Keywords ==
  { << "S", "E", "L", "E", "C", "T" >>,
    << "W", "I", "T", "H" >>,
    << "S", "H", "O", "W" >>,
    << "D", "E", "S", "C", "R", "I", "B", "E" >>,
    << "D", "E", "S", "C" >>,
    << "E", "X", "P", "L", "A", "I", "N" >>,
    << "V", "A", "L", "U", "E", "S" >> }

\* what a text starts with: a keyword, another word, or nothing
Heads == Keywords \cup { << "C", "A", "L", "L" >>, << >> }

\* the forbidden phrases, word by word (t and p stand for an identifier)
Phrases ==
  { << << "I", "N", "S", "E", "R", "T" >>, << "I", "N", "T", "O" >> >>,
    << << "U", "P", "D", "A", "T", "E" >>, << "t" >>, << "S", "E", "T" >> >>,
    << << "D", "E", "L", "E", "T", "E" >>, << "F", "R", "O", "M" >> >>,
    << << "C", "R", "E", "A", "T", "E" >>, << "T", "A", "B", "L", "E" >> >>,
    << << "C", "R", "E", "A", "T", "E" >>, << "V", "I", "E", "W" >> >>,
    << << "C", "R", "E", "A", "T", "E" >>, << "S", "C", "H", "E", "M", "A" >> >>,
    << << "C", "R", "E", "A", "T", "E" >>, << "D", "A", "T", "A", "B", "A", "S", "E" >> >>,
    << << "D", "R", "O", "P" >>, << "T", "A", "B", "L", "E" >> >>,
    << << "D", "R", "O", "P" >>, << "V", "I", "E", "W" >> >>,
    << << "D", "R", "O", "P" >>, << "S", "C", "H", "E", "M", "A" >> >>,
    << << "D", "R", "O", "P" >>, << "D", "A", "T", "A", "B", "A", "S", "E" >> >>,
    << << "A", "L", "T", "E", "R" >>, << "T", "A", "B", "L", "E" >> >>,
    << << "A", "L", "T", "E", "R" >>, << "V", "I", "E", "W" >> >>,
    << << "A", "L", "T", "E", "R" >>, << "S", "C", "H", "E", "M", "A" >> >>,
    << << "A", "L", "T", "E", "R" >>, << "D", "A", "T", "A", "B", "A", "S", "E" >> >>,
    << << "M", "E", "R", "G", "E" >>, << "I", "N", "T", "O" >> >>,
    << << "T", "R", "U", "N", "C", "A", "T", "E" >>, << "T", "A", "B", "L", "E" >> >>,
    << << "G", "R", "A", "N", "T" >>, << "p" >>, << "O", "N" >> >>,
    << << "R", "E", "V", "O", "K", "E" >>, << "p" >>, << "O", "N" >> >> }

\* runs of one whitespace character, up to MaxWs long
Seps == {Repeat(<< c >>, n) : c \in {" ", "\t", "\n"}, n \in 1..MaxWs}

\* a head, a phrase in upper case, and what follows it
PhraseTexts ==
  { Cat(<< h, << " " >>, JoinWords(ph, << " " >>), t >>) :
      h \in Heads,
      ph \in Phrases \cup { << << "x" >> >> },
      t \in { << >>, << " ", "x" >>, << "/", "*", "*", "/", "x" >> } }

\* a phrase in lower or mixed case, its words any whitespace apart
SpacedTexts ==
  { Cat(<< h, c, << " ", "x" >> >>) :
      h \in { << >>, << "S", "E", "L", "E", "C", "T", " " >>, << "s", "e", "l", "e", "c", "t", "\n" >> },
      c \in UNION { { Lowered(JoinWords(ph, sep)), Mixed(JoinWords(ph, sep)) } :
                      ph \in Phrases, sep \in Seps } }

\* texts with comments, closed, open and nested
CommentTexts ==
  { Cat(<< lead, h, gap, core, t >>) :
      lead \in { << >>, << "-", "-", " ", "c", "\n" >>, << "/", "*", " ", "c", " ", "*", "/", " " >> },
      h \in { << >>, << "S", "E", "L", "E", "C", "T", " ", "1" >> },
      gap \in { << " " >>,
              << " ", "-", "-", " " >>,
              << " ", "/", "*", " " >>,
              << " ", "/", "*", " ", "-", "-", " ", "*", "/", " " >>,
              << "\n" >>,
              << " ", "-", "/", "*", "*", "/", "-", " " >>,
              << " ", "/", "*", "\n", "-", "-", " ", "*", "/", " " >> },
      core \in { << >>, << "D", "R", "O", "P", " ", "T", "A", "B", "L", "E", " ", "x" >> },
      t \in { << >>, << " ", "*", "/" >>, << "\n", "z" >> } }

\* one to MaxParens opening parentheses, each with or without a space after
ParenLeads ==
  { Cat(ps) : ps \in UNION { [1..n -> { << "(" >>, << "(", " " >> }] : n \in 1..MaxParens } }

\* texts that start with parentheses
ParenTexts ==
  { Cat(<< lead, h, t >>) :
      lead \in ParenLeads,
      h \in Heads \cup { << "s", "e", "l", "e", "c", "t" >> },
      t \in { << " ", "1", ")" >>, << " ", "D", "R", "O", "P", " ", "T", "A", "B", "L", "E", " ", "x", ")" >> } }

\* the texts the specification and the tests name
ExampleTexts ==
  { << >>,
    << " " >>,
    << "D", "R", "O", "P", " ", "T", "A", "B", "L", "E", " ", "f", "o", "o" >>,
    << "I", "N", "S", "E", "R", "T", " ", "I", "N", "T", "O", " ", "t", " ", "V", "A", "L", "U", "E", "S", " ", "(", "1", ")" >>,
    << "S", "E", "L", "E", "C", "T", " ", "1", " ", "-", "-", " ", "D", "R", "O", "P", " ", "T", "A", "B", "L", "E", " ", "x" >>,
    << "(", "W", "I", "T", "H", " ", "x", " ", "A", "S", " ", "(", "S", "E", "L", "E", "C", "T", " ", "1", ")", " ", "S", "E", "L", "E", "C", "T", " ", "*", " ", "F", "R", "O", "M", " ", "x", ")" >>,
    << "S", "E", "L", "E", "C", "T", " ", "*", " ", "F", "R", "O", "M", " ", "d", "e", "l", "e", "t", "e", "d", "_", "r", "e", "c", "o", "r", "d", "s" >>,
    << "S", "E", "L", "E", "C", "T", " ", "u", "p", "d", "a", "t", "e", "s", " ", "F", "R", "O", "M", " ", "t" >> }

\* the query arguments of execute_query
Texts == PhraseTexts \cup SpacedTexts \cup CommentTexts \cup ParenTexts \cup ExampleTexts

\* the characters of a limit argument
LimitChars == {"0", "1", "-", " ", "a"}

\* the limit arguments of sample_table
LimitTexts ==
  UNION { [1..n -> LimitChars] : n \in 0..MaxLimitLen }
    \cup { << "5", "0", "0" >>, << "a", "b", "c" >>, << "1", "0" >> }

\* the table arguments, and the schema and catalog arguments
TableArgs == { << >>, << " " >>, << "\t", "\n" >>, << "t" >> }
NameArgs == { << >>, << "c" >> }

\* ------------------------------------------------------- format_results

\* the row limit format_results has when a tool passes none
DefaultLimit == 100

\* the row limit describe_table, show_columns and get_table_stats pass
WideLimit == 1000

\* a fetch that takes every row, whatever the size asked for
fetchmany_all(rows, size) == rows

\* cursor.fetchmany(size) of a cursor that holds rows more rows: how many
\* rows it returns
fetchmany(rows, size) ==
  IF size <= 0 THEN 0 ELSE IF rows < size THEN rows ELSE size

\* where format_results may raise inside its try block
FormatFaults == {"none", "description", "fetchmany", "tabulate"}

\* format_results(cursor, limit) on a cursor whose result has rs.cols columns
\* and rs.rows rows, with an exception raised at fault when that statement
\* is reached: the text returned, the calls of fetchmany and their size, the
\* rows fetched, whether the limit note is appended, whether it raised
format_results(rs, limit, fault) ==
  LET got == fetchmany(rs.rows, limit)
      blank == [text |-> "", fetches |-> 0, size |-> << >>, count |-> 0,
                note |-> FALSE, raised |-> FALSE]
  IN IF fault = "description"
     THEN [blank EXCEPT !.text = "Error formatting results", !.raised = TRUE]
     ELSE IF rs.cols = 0
     THEN [blank EXCEPT !.text = "No columns returned"]
     ELSE IF fault = "fetchmany"
     THEN [blank EXCEPT !.text = "Error formatting results", !.raised = TRUE,
                        !.fetches = 1, !.size = << limit >>]
     ELSE IF got = 0
     THEN [blank EXCEPT !.text = "No results returned",
                        !.fetches = 1, !.size = << limit >>]
     ELSE IF fault = "tabulate"
     THEN [blank EXCEPT !.text = "Error formatting results", !.raised = TRUE,
                        !.fetches = 1, !.size = << limit >>, !.count = got]
     ELSE [blank EXCEPT !.text = "table",
                        !.fetches = 1, !.size = << limit >>, !.count = got,
                        !.note = (got = limit)]

\* ------------------------------------------------------------- the tools

\* TRINO_CATALOG and TRINO_SCHEMA with the environment left unset
TRINO_CATALOG == << "t", "p", "c", "h" >>
TRINO_SCHEMA == << "t", "i", "n", "y" >>

\* x.strip() or default
StripOr(x, default) == IF Strip(x) = << >> THEN default ELSE Strip(x)

\* full_table of the table tools
full_table(a) ==
  Cat(<< StripOr(a.catalog, TRINO_CATALOG), << "." >>,
         StripOr(a.schema, TRINO_SCHEMA), << "." >>, a.table >>)

\* ------------------------------------------------- the failure blocks

\* str.lower()
Lower(s) ==
  [k \in 1..Len(s) |->
     IF s[k] \in DOMAIN LowerTable THEN LowerTable[s[k]] ELSE s[k]]

\* w in s
Contains(s, w) == \E i \in 1..(Len(s) - Len(w) + 1) : LitAt(s, i, w)

\* s[:n]
Prefix(s, n) == SubSeq(s, 1, IF Len(s) < n THEN Len(s) ELSE n)

\* The blocks of format_error_message, with TRINO_HOST, TRINO_PORT,
\* TRINO_USER and TRINO_CATALOG at the values they have when the
\* environment is left unset.  "(mark)" stands for the characters before
\* each heading, which are not ASCII and are no letters of any word the
\* function looks for.

\* the connection block up to {error_msg}
ConnectionBlockHead ==
  << "(mark)", " ", "C", "o", "n", "n", "e", "c", "t", "i", "o", "n", " ",
     "E", "r", "r", "o", "r", ":", " ", "C", "a", "n", "n", "o", "t", " ",
     "c", "o", "n", "n", "e", "c", "t", " ", "t", "o", " ", "T", "r", "i",
     "n", "o", " ", "s", "e", "r", "v", "e", "r", "\n", "\n", "D", "e", "t",
     "a", "i", "l", "s", ":", " " >>

\* the connection block after {error_msg}
ConnectionBlockTail ==
  << "\n", "\n", "T", "r", "o", "u", "b", "l", "e", "s", "h", "o", "o", "t",
     "i", "n", "g", ":", "\n", "1", ".", " ", "V", "e", "r", "i", "f", "y",
     " ", "T", "r", "i", "n", "o", " ", "s", "e", "r", "v", "e", "r", " ",
     "i", "s", " ", "r", "u", "n", "n", "i", "n", "g", ":", "\n", " ", " ",
     " ", "c", "u", "r", "l", " ", "h", "t", "t", "p", ":", "/", "/", "h",
     "o", "s", "t", ".", "d", "o", "c", "k", "e", "r", ".", "i", "n", "t",
     "e", "r", "n", "a", "l", ":", "8", "0", "8", "8", "/", "v", "1", "/",
     "i", "n", "f", "o", "\n", "\n", "2", ".", " ", "C", "h", "e", "c", "k",
     " ", "e", "n", "v", "i", "r", "o", "n", "m", "e", "n", "t", " ", "v",
     "a", "r", "i", "a", "b", "l", "e", "s", ":", "\n", " ", " ", " ", "-",
     " ", "T", "R", "I", "N", "O", "_", "H", "O", "S", "T", "=", "h", "o",
     "s", "t", ".", "d", "o", "c", "k", "e", "r", ".", "i", "n", "t", "e",
     "r", "n", "a", "l", "\n", " ", " ", " ", "-", " ", "T", "R", "I", "N",
     "O", "_", "P", "O", "R", "T", "=", "8", "0", "8", "8", "\n", " ", " ",
     " ", "-", " ", "T", "R", "I", "N", "O", "_", "U", "S", "E", "R", "=",
     "t", "r", "i", "n", "o", "\n", "\n", "3", ".", " ", "F", "o", "r", " ",
     "r", "e", "m", "o", "t", "e", " ", "s", "e", "r", "v", "e", "r", "s",
     ",", " ", "e", "n", "s", "u", "r", "e", " ", "S", "S", "H", " ", "t",
     "u", "n", "n", "e", "l", " ", "i", "s", " ", "a", "c", "t", "i", "v",
     "e", " ", "(", "i", "f", " ", "r", "e", "q", "u", "i", "r", "e", "d",
     ")", "\n", "\n", "4", ".", " ", "F", "o", "r", " ", "D", "o", "c", "k",
     "e", "r", ",", " ", "v", "e", "r", "i", "f", "y", " ", "n", "e", "t",
     "w", "o", "r", "k", " ", "c", "o", "n", "f", "i", "g", "u", "r", "a",
     "t", "i", "o", "n", ":", "\n", " ", " ", " ", "-", " ", "U", "s", "e",
     " ", "'", "h", "o", "s", "t", ".", "d", "o", "c", "k", "e", "r", ".",
     "i", "n", "t", "e", "r", "n", "a", "l", "'", " ", "f", "o", "r", " ",
     "l", "o", "c", "a", "l", "h", "o", "s", "t", " ", "c", "o", "n", "n",
     "e", "c", "t", "i", "o", "n", "s", "\n", " ", " ", " ", "-", " ", "O",
     "n", " ", "L", "i", "n", "u", "x", ",", " ", "a", "d", "d", ":", " ",
     "-", "-", "a", "d", "d", "-", "h", "o", "s", "t", "=", "h", "o", "s",
     "t", ".", "d", "o", "c", "k", "e", "r", ".", "i", "n", "t", "e", "r",
     "n", "a", "l", ":", "h", "o", "s", "t", "-", "g", "a", "t", "e", "w",
     "a", "y", "\n", " ", " ", " ", "-", " ", "C", "h", "e", "c", "k", " ",
     "D", "o", "c", "k", "e", "r", " ", "n", "e", "t", "w", "o", "r", "k",
     " ", "m", "o", "d", "e", " ", "s", "e", "t", "t", "i", "n", "g", "s",
     "\n", "\n", "5", ".", " ", "C", "h", "e", "c", "k", " ", "f", "i", "r",
     "e", "w", "a", "l", "l", " ", "r", "u", "l", "e", "s", " ", "a", "n",
     "d", " ", "n", "e", "t", "w", "o", "r", "k", " ", "c", "o", "n", "n",
     "e", "c", "t", "i", "v", "i", "t", "y" >>

\* the authentication block up to {error_msg}
AuthenticationBlockHead ==
  << "(mark)", " ", "A", "u", "t", "h", "e", "n", "t", "i", "c", "a", "t",
     "i", "o", "n", " ", "E", "r", "r", "o", "r", ":", " ", "F", "a", "i",
     "l", "e", "d", " ", "t", "o", " ", "a", "u", "t", "h", "e", "n", "t",
     "i", "c", "a", "t", "e", " ", "w", "i", "t", "h", " ", "T", "r", "i",
     "n", "o", "\n", "\n", "D", "e", "t", "a", "i", "l", "s", ":", " " >>

\* the authentication block after {error_msg}
AuthenticationBlockTail ==
  << "\n", "\n", "T", "r", "o", "u", "b", "l", "e", "s", "h", "o", "o", "t",
     "i", "n", "g", ":", "\n", "1", ".", " ", "V", "e", "r", "i", "f", "y",
     " ", "T", "R", "I", "N", "O", "_", "U", "S", "E", "R", " ", "i", "s",
     " ", "c", "o", "r", "r", "e", "c", "t", ":", " ", "t", "r", "i", "n",
     "o", "\n", "2", ".", " ", "I", "f", " ", "u", "s", "i", "n", "g", " ",
     "p", "a", "s", "s", "w", "o", "r", "d", " ", "a", "u", "t", "h", "e",
     "n", "t", "i", "c", "a", "t", "i", "o", "n", ",", " ", "c", "h", "e",
     "c", "k", " ", "T", "R", "I", "N", "O", "_", "P", "A", "S", "S", "W",
     "O", "R", "D", " ", "i", "s", " ", "s", "e", "t", " ", "c", "o", "r",
     "r", "e", "c", "t", "l", "y", "\n", "3", ".", " ", "V", "e", "r", "i",
     "f", "y", " ", "u", "s", "e", "r", " ", "h", "a", "s", " ", "r", "e",
     "a", "d", " ", "p", "e", "r", "m", "i", "s", "s", "i", "o", "n", "s",
     " ", "o", "n", " ", "c", "a", "t", "a", "l", "o", "g", ":", " ", "t",
     "p", "c", "h", "\n", "4", ".", " ", "C", "h", "e", "c", "k", " ", "T",
     "r", "i", "n", "o", " ", "s", "e", "r", "v", "e", "r", " ", "a", "u",
     "t", "h", "e", "n", "t", "i", "c", "a", "t", "i", "o", "n", " ", "c",
     "o", "n", "f", "i", "g", "u", "r", "a", "t", "i", "o", "n" >>

\* the query block up to {error_msg}
QueryBlockHead ==
  << "(mark)", " ", "Q", "u", "e", "r", "y", " ", "E", "r", "r", "o", "r",
     ":", " ", "S", "Q", "L", " ", "s", "y", "n", "t", "a", "x", " ", "o",
     "r", " ", "p", "a", "r", "s", "i", "n", "g", " ", "e", "r", "r", "o",
     "r", "\n", "\n", "D", "e", "t", "a", "i", "l", "s", ":", " " >>

\* the query block after {error_msg}
QueryBlockTail ==
  << "\n", "\n", "T", "r", "o", "u", "b", "l", "e", "s", "h", "o", "o", "t",
     "i", "n", "g", ":", "\n", "1", ".", " ", "C", "h", "e", "c", "k", " ",
     "S", "Q", "L", " ", "s", "y", "n", "t", "a", "x", " ", "f", "o", "r",
     " ", "T", "r", "i", "n", "o", "-", "s", "p", "e", "c", "i", "f", "i",
     "c", " ", "r", "e", "q", "u", "i", "r", "e", "m", "e", "n", "t", "s",
     "\n", "2", ".", " ", "V", "e", "r", "i", "f", "y", " ", "t", "a", "b",
     "l", "e", "/", "s", "c", "h", "e", "m", "a", "/", "c", "a", "t", "a",
     "l", "o", "g", " ", "n", "a", "m", "e", "s", " ", "a", "r", "e", " ",
     "c", "o", "r", "r", "e", "c", "t", "\n", "3", ".", " ", "E", "n", "s",
     "u", "r", "e", " ", "p", "r", "o", "p", "e", "r", " ", "q", "u", "o",
     "t", "i", "n", "g", " ", "f", "o", "r", " ", "i", "d", "e", "n", "t",
     "i", "f", "i", "e", "r", "s", " ", "w", "i", "t", "h", " ", "s", "p",
     "e", "c", "i", "a", "l", " ", "c", "h", "a", "r", "a", "c", "t", "e",
     "r", "s", "\n", "4", ".", " ", "C", "h", "e", "c", "k", " ", "T", "r",
     "i", "n", "o", " ", "S", "Q", "L", " ", "d", "o", "c", "u", "m", "e",
     "n", "t", "a", "t", "i", "o", "n", " ", "f", "o", "r", " ", "s", "u",
     "p", "p", "o", "r", "t", "e", "d", " ", "s", "y", "n", "t", "a", "x" >>

\* the generic block up to {error_type}
GenericBlockHead ==
  << "(mark)", " ", "E", "r", "r", "o", "r", ":", " " >>

\* the generic block between {error_type} and {error_msg}
GenericBlockDetails ==
  << "\n", "\n", "D", "e", "t", "a", "i", "l", "s", ":", " " >>

\* the generic block between {error_msg} and the context
GenericBlockContext ==
  << "\n", "\n", "C", "o", "n", "t", "e", "x", "t", ":", " " >>

\* the generic block after the context
GenericBlockTail ==
  << "\n", "\n", "F", "o", "r", " ", "m", "o", "r", "e", " ", "h", "e", "l",
     "p", ",", " ", "c", "h", "e", "c", "k", ":", "\n", "-", " ", "T", "r",
     "i", "n", "o", " ", "s", "e", "r", "v", "e", "r", " ", "l", "o", "g",
     "s", "\n", "-", " ", "N", "e", "t", "w", "o", "r", "k", " ", "c", "o",
     "n", "n", "e", "c", "t", "i", "v", "i", "t", "y", "\n", "-", " ", "E",
     "n", "v", "i", "r", "o", "n", "m", "e", "n", "t", " ", "v", "a", "r",
     "i", "a", "b", "l", "e", " ", "c", "o", "n", "f", "i", "g", "u", "r",
     "a", "t", "i", "o", "n" >>

\* 'No additional context'
NoAdditionalContext ==
  << "N", "o", " ", "a", "d", "d", "i", "t", "i", "o", "n", "a", "l", " ",
     "c", "o", "n", "t", "e", "x", "t" >>

\* the context get_trino_connection passes
ConnectionAttempt ==
  << "C", "o", "n", "n", "e", "c", "t", "i", "o", "n", " ", "a", "t", "t",
     "e", "m", "p", "t" >>

\* the words format_error_message looks for, in the order of its tests
ConnectionWords ==
  { << "c", "o", "n", "n", "e", "c", "t", "i", "o", "n" >>,
    << "c", "o", "n", "n", "e", "c", "t" >> }

AuthenticationWords ==
  { << "a", "u", "t", "h", "e", "n", "t", "i", "c", "a", "t", "i", "o", "n" >>,
    << "u", "n", "a", "u", "t", "h", "o", "r", "i", "z", "e", "d" >> }

QueryWords ==
  { << "s", "y", "n", "t", "a", "x" >>,
    << "p", "a", "r", "s", "e" >> }

\* one of the words is in the text
ContainsAny(text, words) == \E w \in words : Contains(text, w)

\* format_error_message(error, context); error.msg is str(error) and
\* error.type is type(error).__name__
format_error_message(error, context) ==
  LET error_msg == error.msg
      error_type == error.type
  IN  IF ContainsAny(Lower(error_msg), ConnectionWords)
      THEN Cat(<< ConnectionBlockHead, error_msg, ConnectionBlockTail >>)
      ELSE IF ContainsAny(Lower(error_msg), AuthenticationWords)
      THEN Cat(<< AuthenticationBlockHead, error_msg,
                  AuthenticationBlockTail >>)
      ELSE IF ContainsAny(Lower(error_msg), QueryWords)
      THEN Cat(<< QueryBlockHead, error_msg, QueryBlockTail >>)
      ELSE Cat(<< GenericBlockHead, error_type, GenericBlockDetails,
                  error_msg, GenericBlockContext,
                  IF context = << >> THEN NoAdditionalContext ELSE context,
                  GenericBlockTail >>)

\* What get_trino_connection raises when trino.dbapi.connect raised e:
\* Exception(format_error_message(e, "Connection attempt"))
get_trino_connection_raises(e) ==
  [type |-> << "E", "x", "c", "e", "p", "t", "i", "o", "n" >>,
   msg |-> format_error_message(e, ConnectionAttempt)]

\* the exceptions the trino client raises: type name and text
Failures ==
  { [type |-> << "R", "u", "n", "t", "i", "m", "e", "E", "r", "r", "o", "r" >>,
     msg |-> << "b", "o", "o", "m" >>],
    [type |-> << "O", "S", "E", "r", "r", "o", "r" >>,
     msg |-> << "C", "o", "n", "n", "e", "c", "t", "i", "o", "n", " ", "r", "e", "f",
     "u", "s", "e", "d" >>],
    [type |-> << "H", "t", "t", "p", "E", "r", "r", "o", "r" >>,
     msg |-> << "4", "0", "1", " ", "U", "n", "a", "u", "t", "h", "o", "r", "i", "z",
     "e", "d" >>],
    [type |-> << "T", "r", "i", "n", "o", "A", "u", "t", "h", "E", "r", "r", "o", "r" >>,
     msg |-> << "A", "u", "t", "h", "e", "n", "t", "i", "c", "a", "t", "i", "o", "n",
     " ", "f", "a", "i", "l", "e", "d" >>],
    [type |-> << "T", "r", "i", "n", "o", "U", "s", "e", "r", "E", "r", "r", "o", "r" >>,
     msg |-> << "S", "Y", "N", "T", "A", "X", "_", "E", "R", "R", "O", "R", ":", " ",
     "l", "i", "n", "e", " ", "1" >>],
    [type |-> << "H", "t", "t", "p", "E", "r", "r", "o", "r" >>,
     msg |-> << "u", "n", "a", "u", "t", "h", "o", "r", "i", "z", "e", "d", ":", " ",
     "p", "a", "r", "s", "e", " ", "f", "a", "i", "l", "e", "d" >>] }

\* the context string a tool's except clause passes to
\* format_error_message
ContextText(t, a) ==
  CASE t = "execute_query" ->
        << "E", "x", "e", "c", "u", "t", "i", "n", "g", " ", "q", "u", "e", "r",
             "y", ":", " " >>
           \o Prefix(a.query, 100)
           \o << ".", ".", "." >>
    [] t = "show_catalogs" ->
        << "S", "h", "o", "w", "i", "n", "g", " ", "c", "a", "t", "a", "l", "o",
             "g", "s" >>
    [] t = "show_schemas" ->
        << "S", "h", "o", "w", "i", "n", "g", " ", "s", "c", "h", "e", "m", "a",
             "s", " ", "i", "n", " ", "c", "a", "t", "a", "l", "o", "g", ":", " " >>
           \o StripOr(a.catalog, TRINO_CATALOG)
    [] t = "show_tables" ->
        << "S", "h", "o", "w", "i", "n", "g", " ", "t", "a", "b", "l", "e", "s",
             " ", "i", "n", " " >>
           \o Cat(<< StripOr(a.catalog, TRINO_CATALOG), << "." >>,
                 StripOr(a.schema, TRINO_SCHEMA) >>)
    [] t = "describe_table" ->
        << "D", "e", "s", "c", "r", "i", "b", "i", "n", "g", " ", "t", "a", "b",
             "l", "e", ":", " " >>
           \o full_table(a)
    [] t = "show_columns" ->
        << "S", "h", "o", "w", "i", "n", "g", " ", "c", "o", "l", "u", "m", "n",
             "s", " ", "f", "o", "r", ":", " " >>
           \o full_table(a)
    [] t = "get_table_stats" ->
        << "G", "e", "t", "t", "i", "n", "g", " ", "s", "t", "a", "t", "s", " ",
             "f", "o", "r", ":", " " >>
           \o full_table(a)
    [] t = "sample_table" ->
        << "S", "a", "m", "p", "l", "i", "n", "g", " ", "t", "a", "b", "l", "e",
             ":", " " >>
           \o full_table(a)
    [] t = "test_connection" ->
        << "T", "e", "s", "t", "i", "n", "g", " ", "c", "o", "n", "n", "e", "c",
             "t", "i", "o", "n" >>

\* The statements of a tool's try block, in order.  try_execute and
\* try_fetchone stand in test_connection's inner try block.
Plan(tool) ==
  CASE tool = "get_table_stats" ->
         << "connect", "cursor", "execute", "fetchone", "execute", "format",
            "cursor_close", "conn_close", "success" >>
    [] tool = "test_connection" ->
         << "connect", "cursor", "try_execute", "try_fetchone", "execute",
            "fetchone", "cursor_close", "conn_close", "success" >>
    [] OTHER ->
         << "connect", "cursor", "execute", "format",
            "cursor_close", "conn_close", "success" >>

\* the statement a tool passes to cursor.execute when it has executed n
Statement(tool, a, lim, n) ==
  CASE tool = "execute_query" ->
         [sql |-> "{query}", name |-> a.query, limit |-> << >>]
    [] tool = "show_catalogs" ->
         [sql |-> "SHOW CATALOGS", name |-> << >>, limit |-> << >>]
    [] tool = "show_schemas" ->
         IF Strip(a.catalog) # << >>
         THEN [sql |-> "SHOW SCHEMAS FROM {catalog_name}",
               name |-> Strip(a.catalog), limit |-> << >>]
         ELSE [sql |-> "SHOW SCHEMAS", name |-> << >>, limit |-> << >>]
    [] tool = "show_tables" ->
         [sql |-> "SHOW TABLES FROM {catalog_name}.{schema_name}",
          name |-> Cat(<< StripOr(a.catalog, TRINO_CATALOG), << "." >>,
                          StripOr(a.schema, TRINO_SCHEMA) >>),
          limit |-> << >>]
    [] tool = "describe_table" ->
         [sql |-> "DESCRIBE {full_table}", name |-> full_table(a), limit |-> << >>]
    [] tool = "show_columns" ->
         [sql |-> "SHOW COLUMNS FROM {full_table}", name |-> full_table(a),
          limit |-> << >>]
    [] tool = "get_table_stats" ->
         IF n = 0
         THEN [sql |-> "SELECT COUNT(*) as row_count FROM {full_table}",
               name |-> full_table(a), limit |-> << >>]
         ELSE [sql |-> "SHOW STATS FOR {full_table}", name |-> full_table(a),
               limit |-> << >>]
    [] tool = "sample_table" ->
         [sql |-> "SELECT * FROM {full_table} LIMIT {limit_int}",
          name |-> full_table(a), limit |-> lim]
    [] tool = "test_connection" ->
         IF n = 0
         THEN [sql |-> "SELECT version()", name |-> << >>, limit |-> << >>]
         ELSE [sql |-> "SELECT 1 as test", name |-> << >>, limit |-> << >>]

\* the limit a tool passes to format_results
FormatLimit(tool, lim) ==
  CASE tool \in {"describe_table", "show_columns", "get_table_stats"} -> WideLimit
    [] tool = "sample_table" -> lim[1]
    [] OTHER -> DefaultLimit

\* not table.strip()
TableMissing(table) == Strip(table) = << >>

\* execute_query without its call of validate_query
execute_query_entry_ungated(query) ==
  IF Strip(query) = << >> THEN "Query is required" ELSE "try"

\* What execute_query does before its try block: the block it returns, or
\* "try" when it goes on.
execute_query_entry(query) ==
  IF Strip(query) = << >> THEN "Query is required"
  ELSE IF ~validate_query(query) THEN "Only read-only queries are allowed"
  ELSE "try"

\* a table check that tests the argument without stripping it
table_entry_unstripped(table) ==
  IF table = << >> THEN "Table name is required" ELSE "try"

\* What a table tool does before its try block.
table_entry(table) ==
  IF TableMissing(table) THEN "Table name is required" ELSE "try"

\* What sample_table does before its second try block.
sample_table_entry(table, limit) ==
  IF TableMissing(table) THEN "Table name is required"
  ELSE IF ~sample_limit(limit).ok THEN "Invalid limit value"
  ELSE "try"

\* the result sets a statement may produce for a reader that fetches up to
\* limit rows: none (no columns), or one with 0..MaxRows rows, with limit
\* rows or with one more
ResultSets(limit) ==
  { [cols |-> 0, rows |-> 0] } \cup
  { [cols |-> 1, rows |-> n] :
      n \in (0..MaxRows) \cup {m \in {limit, limit + 1} : m >= 0} }

\* ------------------------------------------------------------- the state

VARIABLES
  phase,     \* "idle", "running" (inside a tool's try block) or "returned"
  tool,      \* the tool that runs, "" when idle
  args,      \* its arguments: query, table, limit, schema, catalog
  step,      \* the position in Plan(tool) of the next statement
  limit_int, \* << limit_int >> of sample_table, << >> otherwise
  attempts,  \* the calls of get_trino_connection in this invocation
  conn,      \* the connection: "none", "open" or "closed"
  cursor,    \* the cursor: "none", "open" or "closed"
  executed,  \* the statements passed to cursor.execute, in order
  pending,   \* the result set of the last statement executed
  rendered,  \* what format_results returned, << >> before it ran
  raised,    \* the statements of this invocation that raised
  result,    \* the text block returned: marker, text, context
  failure,   \* << e >>, e the exception the client raised into the except
             \* clause of the tool, << >> when there was none
  block      \* the text format_error_message returned to the tool

vars ==
  << phase, tool, args, step, limit_int, attempts, conn, cursor, executed,
     pending, rendered, raised, result, failure, block >>

NoArgs ==
  [query |-> << >>, table |-> << >>, limit |-> << >>, schema |-> << >>,
   catalog |-> << >>]

NoResult == [marker |-> "", text |-> "", context |-> ""]

NoRows == [cols |-> 0, rows |-> 0]

Init ==
  /\ phase = "idle"
  /\ tool = ""
  /\ args = NoArgs
  /\ step = 0
  /\ limit_int = << >>
  /\ attempts = 0
  /\ conn = "none"
  /\ cursor = "none"
  /\ executed = << >>
  /\ pending = NoRows
  /\ rendered = << >>
  /\ raised = {}
  /\ result = NoResult
  /\ failure = << >>
  /\ block = << >>

\* the context string a tool passes to format_error_message
Context(t) ==
  CASE t = "execute_query" -> "Executing query: {query[:100]}..."
    [] t = "show_catalogs" -> "Showing catalogs"
    [] t = "show_schemas" -> "Showing schemas in catalog: {catalog_name}"
    [] t = "show_tables" -> "Showing tables in {catalog_name}.{schema_name}"
    [] t = "describe_table" -> "Describing table: {full_table}"
    [] t = "show_columns" -> "Showing columns for: {full_table}"
    [] t = "get_table_stats" -> "Getting stats for: {full_table}"
    [] t = "sample_table" -> "Sampling table: {full_table}"
    [] t = "test_connection" -> "Testing connection"

\* the heading of a tool's success block
SuccessText(t) ==
  CASE t = "execute_query" -> "Query executed successfully"
    [] t = "show_catalogs" -> "Available catalogs"
    [] t = "show_schemas" -> "Schemas in {catalog_name}"
    [] t = "show_tables" -> "Tables in {catalog_name}.{schema_name}"
    [] t = "describe_table" -> "Structure of {full_table}"
    [] t = "show_columns" -> "Columns in {full_table}"
    [] t = "get_table_stats" -> "Statistics for {full_table}"
    [] t = "sample_table" -> "Sample from {full_table}"
    [] t = "test_connection" -> "Connection Test Successful!"

\* A tool is called with arguments a; entry is what its code before the try
\* block decides, lim its limit_int.
Enter(t, a, entry, lim) ==
  /\ phase = "idle"
  /\ tool' = t
  /\ args' = a
  /\ limit_int' = lim
  /\ IF entry = "try"
     THEN /\ phase' = "running"
          /\ step' = 1
          /\ result' = NoResult
     ELSE /\ phase' = "returned"
          /\ step' = 0
          /\ result' = [marker |-> "error", text |-> entry, context |-> ""]
  /\ UNCHANGED << attempts, conn, cursor, executed, pending, rendered, raised,
                  failure, block >>

execute_query ==
  /\ phase = "idle"
  /\ \E q \in Texts :
       Enter("execute_query", [NoArgs EXCEPT !.query = q],
             execute_query_entry(q), << >>)

show_catalogs ==
  /\ phase = "idle"
  /\ Enter("show_catalogs", NoArgs, "try", << >>)

show_schemas ==
  /\ phase = "idle"
  /\ \E c \in NameArgs :
       Enter("show_schemas", [NoArgs EXCEPT !.catalog = c], "try", << >>)

show_tables ==
  /\ phase = "idle"
  /\ \E s \in NameArgs, c \in NameArgs :
       Enter("show_tables", [NoArgs EXCEPT !.schema = s, !.catalog = c],
             "try", << >>)

describe_table ==
  /\ phase = "idle"
  /\ \E t \in TableArgs, s \in NameArgs, c \in NameArgs :
       Enter("describe_table",
             [NoArgs EXCEPT !.table = t, !.schema = s, !.catalog = c],
             table_entry(t), << >>)

show_columns ==
  /\ phase = "idle"
  /\ \E t \in TableArgs, s \in NameArgs, c \in NameArgs :
       Enter("show_columns",
             [NoArgs EXCEPT !.table = t, !.schema = s, !.catalog = c],
             table_entry(t), << >>)

get_table_stats ==
  /\ phase = "idle"
  /\ \E t \in TableArgs, s \in NameArgs, c \in NameArgs :
       Enter("get_table_stats",
             [NoArgs EXCEPT !.table = t, !.schema = s, !.catalog = c],
             table_entry(t), << >>)

sample_table ==
  /\ phase = "idle"
  /\ \E t \in TableArgs, l \in LimitTexts, c \in NameArgs :
       \* the schema is left out: like the catalog, it only fills full_table
       Enter("sample_table",
             [NoArgs EXCEPT !.table = t, !.limit = l, !.catalog = c],
             sample_table_entry(t, l),
             IF sample_table_entry(t, l) = "try"
             THEN << sample_limit(l).val >> ELSE << >>)

test_connection ==
  /\ phase = "idle"
  /\ Enter("test_connection", NoArgs, "try", << >>)

\* the statement the running tool is at
At(name) ==
  /\ phase = "running"
  /\ step <= Len(Plan(tool))
  /\ Plan(tool)[step] = name

\* A statement of the try block raises: the except clause returns the block
\* format_error_message builds.
Raise(name) ==
  /\ phase' = "returned"
  /\ raised' = raised \cup {name}
  /\ result' = [marker |-> "error", text |-> "formatted error",
                context |-> Context(tool)]
  /\ \E e \in Failures :
       /\ failure' = << e >>
       /\ block' = format_error_message(
                      IF name = "connect"
                      THEN get_trino_connection_raises(e) ELSE e,
                      ContextText(tool, args))

\* conn = get_trino_connection()
Connect ==
  /\ At("connect")
  /\ attempts' = attempts + 1
  /\ \/ /\ conn' = "open"
        /\ step' = step + 1
        /\ UNCHANGED << phase, raised, result, failure, block >>
     \/ /\ Raise("connect")
        /\ UNCHANGED << conn, step >>
  /\ UNCHANGED << tool, args, limit_int, cursor, executed, pending, rendered >>

\* cursor = conn.cursor()
Cursor ==
  /\ At("cursor")
  /\ \/ /\ cursor' = "open"
        /\ step' = step + 1
        /\ UNCHANGED << phase, raised, result, failure, block >>
     \/ /\ Raise("cursor")
        /\ UNCHANGED << cursor, step >>
  /\ UNCHANGED << tool, args, limit_int, attempts, conn, executed, pending,
                  rendered >>

\* cursor.execute(...) outside an inner try block
Execute ==
  /\ At("execute")
  /\ executed' = Append(executed, Statement(tool, args, limit_int, Len(executed)))
  /\ \/ /\ pending' \in ResultSets(FormatLimit(tool, limit_int))
        /\ step' = step + 1
        /\ UNCHANGED << phase, raised, result, failure, block >>
     \/ /\ Raise("execute")
        /\ UNCHANGED << pending, step >>
  /\ UNCHANGED << tool, args, limit_int, attempts, conn, cursor, rendered >>

\* cursor.fetchone() outside an inner try block
Fetchone ==
  /\ At("fetchone")
  /\ \/ /\ step' = step + 1
        /\ UNCHANGED << phase, raised, result, failure, block >>
     \/ /\ Raise("fetchone")
        /\ UNCHANGED step
  /\ UNCHANGED << tool, args, limit_int, attempts, conn, cursor, executed,
                  pending, rendered >>

\* test_connection's inner try block: cursor.execute("SELECT version()");
\* when it raises, version is "Unable to retrieve version" and the tool
\* goes on after the block
TryExecute ==
  /\ At("try_execute")
  /\ executed' = Append(executed, Statement(tool, args, limit_int, Len(executed)))
  /\ \/ /\ pending' \in ResultSets(1)
        /\ step' = step + 1
        /\ UNCHANGED raised
     \/ /\ raised' = raised \cup {"try_execute"}
        /\ step' = step + 2
        /\ UNCHANGED pending
  /\ UNCHANGED << phase, tool, args, limit_int, attempts, conn, cursor,
                  rendered, result, failure, block >>

\* test_connection's inner try block: cursor.fetchone()
TryFetchone ==
  /\ At("try_fetchone")
  /\ step' = step + 1
  /\ \/ UNCHANGED raised
     \/ raised' = raised \cup {"try_fetchone"}
  /\ UNCHANGED << phase, tool, args, limit_int, attempts, conn, cursor,
                  executed, pending, rendered, result, failure, block >>

\* result = format_results(cursor, ...): it catches what raises inside it
FormatResults ==
  /\ At("format")
  /\ \E fault \in FormatFaults :
       LET r == format_results(pending, FormatLimit(tool, limit_int), fault)
       IN /\ rendered' = << r >>
          /\ raised' = IF r.raised THEN raised \cup {"format"} ELSE raised
  /\ step' = step + 1
  /\ UNCHANGED << phase, tool, args, limit_int, attempts, conn, cursor,
                  executed, pending, result, failure, block >>

\* cursor.close()
CursorClose ==
  /\ At("cursor_close")
  /\ \/ /\ cursor' = "closed"
        /\ step' = step + 1
        /\ UNCHANGED << phase, raised, result, failure, block >>
     \/ /\ Raise("cursor_close")
        /\ UNCHANGED << cursor, step >>
  /\ UNCHANGED << tool, args, limit_int, attempts, conn, executed, pending,
                  rendered >>

\* conn.close(); when it raises, the connection is not known to be closed
ConnClose ==
  /\ At("conn_close")
  /\ \/ /\ conn' = "closed"
        /\ step' = step + 1
        /\ UNCHANGED << phase, raised, result, failure, block >>
     \/ /\ Raise("conn_close")
        /\ UNCHANGED << conn, step >>
  /\ UNCHANGED << tool, args, limit_int, attempts, cursor, executed, pending,
                  rendered >>

\* the return statement that ends the try block
Success ==
  /\ At("success")
  /\ phase' = "returned"
  /\ result' = [marker |-> "ok", text |-> SuccessText(tool), context |-> ""]
  /\ UNCHANGED << tool, args, step, limit_int, attempts, conn, cursor,
                  executed, pending, rendered, raised, failure, block >>

\* the block goes to the caller; the invocation's locals are gone
Deliver ==
  /\ phase = "returned"
  /\ phase' = "idle"
  /\ tool' = ""
  /\ args' = NoArgs
  /\ step' = 0
  /\ limit_int' = << >>
  /\ attempts' = 0
  /\ conn' = "none"
  /\ cursor' = "none"
  /\ executed' = << >>
  /\ pending' = NoRows
  /\ rendered' = << >>
  /\ raised' = {}
  /\ result' = NoResult
  /\ failure' = << >>
  /\ block' = << >>

Next ==
  \/ execute_query
  \/ show_catalogs
  \/ show_schemas
  \/ show_tables
  \/ describe_table
  \/ show_columns
  \/ get_table_stats
  \/ sample_table
  \/ test_connection
  \/ Connect
  \/ Cursor
  \/ Execute
  \/ Fetchone
  \/ TryExecute
  \/ TryFetchone
  \/ FormatResults
  \/ CursorClose
  \/ ConnClose
  \/ Success
  \/ Deliver

Spec == Init /\ [][Next]_vars

\* ------------------------------------------------------------ the claims

PolicyText == "Only read-only queries are allowed"

\* the running invocation was turned away before its try block
TurnedAway(text) ==
  /\ phase = "returned"
  /\ step = 0
  /\ result = [marker |-> "error", text |-> text, context |-> ""]
  /\ attempts = 0
  /\ conn = "none"
  /\ cursor = "none"
  /\ executed = << >>

\* C1 (as stated): in every state of an execute_query invocation whose query
\* validate_query rejects, the invocation has returned the policy message and
\* has neither asked for a connection nor executed a statement.
C1_RejectedReturnsPolicyMessage ==
  (tool = "execute_query" /\ ~TurnedAway(PolicyText))
    => validate_query(args.query)

\* C1 (amended): in every state of an execute_query invocation whose query
\* validate_query rejects, the invocation has returned without asking for a
\* connection or executing a statement; the block it returned is the
\* query-required message when the query is empty or blank and the policy
\* message otherwise.
C1_RejectedNeverConnects ==
  (tool = "execute_query"
     /\ ~TurnedAway(IF Strip(args.query) = << >>
                    THEN "Query is required" ELSE PolicyText))
    => validate_query(args.query)

\* C1 witness: "DROP TABLE foo" was turned away with the policy message
C1_Witness ==
  /\ tool = "execute_query"
  /\ args.query = << "D", "R", "O", "P", " ", "T", "A", "B", "L", "E", " ", "f", "o", "o" >>
  /\ ~validate_query(args.query)
  /\ TurnedAway(PolicyText)

\* the state right after execute_query's code before the try block: the
\* query was turned away (step 0) or the try block is entered (step 1)
AtGate == tool = "execute_query" /\ step <= 1

\* validate_query returned True for the query of the running invocation
GateAllowed == step = 1

\* the positions of a query that both comment substitutions keep
KeptPositions(query) ==
  LET k1 == StripLineKeep(query, 1)
      k2 == StripBlockKeep(Select(query, k1), 1)
  IN {k1[k2[j]] : j \in 1..Len(k2)}

\* a forbidden pattern matches the query as it was written, in any letter
\* case, on characters that no comment substitution removes
ForbiddenOutsideComments(query) ==
  LET u == Upper(query)
      kept == KeptPositions(query)
  IN \E k \in 1..Len(forbidden_patterns), i \in 1..Len(u) :
       LET e == MatchEndAt(forbidden_patterns[k], u, i)
       IN e # 0 /\ \A j \in i..(e - 1) : j \in kept

\* C2 (as stated): a query that holds a forbidden pattern outside of
\* comments, in any letter case and with any whitespace between the words,
\* is rejected, whatever it starts with.
C2_ForbiddenOutsideCommentsRejected ==
  (AtGate /\ ForbiddenOutsideComments(args.query)) => TurnedAway(PolicyText)

\* C3 (as stated): an invocation that has returned asked for at most one
\* connection and does not leave it open.
C3_ConnectionClosedOnReturn ==
  phase = "returned" => (attempts <= 1 /\ conn # "open")

\* some forbidden pattern matches the text
AnyForbidden(s) ==
  \E k \in 1..Len(forbidden_patterns) : Search(forbidden_patterns[k], s)

\* the text starts with SELECT, WITH, SHOW, DESCRIBE, DESC, EXPLAIN or VALUES
StartsWithKeyword(s) == \E kw \in Keywords : StartsWith(s, kw)

\* the text after its first run of opening parentheses and the whitespace
\* that follows the run
AfterParenRun(s) == SubSeq(s, SkipSpace(s, SkipParens(s, 1)), Len(s))

CleanBlockFirst(query) ==
  NormalizeWhitespace(StripLineComments(StripBlockComments(query)))

\* the decision of validate_query on an upper-case cleaned text
DecisionOn(upper) ==
  IF ForbiddenFrom(upper, 1) THEN FALSE ELSE PrefixAllowed(upper)

\* C5 (as stated): cleaning a cleaned query changes nothing, and stripping
\* block comments before line comments gives the same text and the same
\* decision as stripping line comments first.
C5_CleaningIdempotentOrderFree ==
  AtGate =>
    LET c == query_clean(args.query)
        b == CleanBlockFirst(args.query)
    IN /\ query_clean(c) = c
       /\ b = c
       /\ DecisionOn(Upper(b)) = DecisionOn(Upper(c))

\* the text after all of its leading opening parentheses and whitespace
RECURSIVE SkipParensAndSpace(_, _)
SkipParensAndSpace(s, i) ==
  IF i > Len(s) \/ s[i] \notin (SpaceChars \cup {"("}) THEN i
  ELSE SkipParensAndSpace(s, i + 1)

AfterAllParens(s) == SubSeq(s, SkipParensAndSpace(s, 1), Len(s))

\* C6 (as stated): a query whose normalized form begins with opening
\* parentheses is allowed exactly when what follows all of the leading
\* parentheses and whitespace starts with a keyword and no forbidden
\* pattern matches.
C6_AllLeadingParensStripped ==
  (AtGate /\ StartsWith(query_upper(args.query), << "(" >>)) =>
    LET n == query_upper(args.query)
    IN GateAllowed <=> (StartsWithKeyword(AfterAllParens(n)) /\ ~AnyForbidden(n))

\* the text is empty or holds whitespace only
Blank(s) == \A i \in 1..Len(s) : s[i] \in SpaceChars

\* C7: sample_table with a table name: a limit argument that is no integer
\* is turned away with the invalid-limit error before any connection or
\* statement; otherwise the tool goes on and the limit of every statement it
\* executes and of every fetch is the parsed value, at most 100, or 10 for
\* an empty or blank argument.
C7_SampleLimitClamped ==
  (tool = "sample_table" /\ ~Blank(args.table)) =>
    IF ~Blank(args.limit) /\ ~ParseInt(args.limit).ok
    THEN TurnedAway("Invalid limit value")
    ELSE LET v == ParseInt(args.limit).val
             n == IF Blank(args.limit) THEN 10 ELSE IF v > 100 THEN 100 ELSE v
         IN /\ step >= 1
            /\ n <= 100
            /\ \A k \in 1..Len(executed) :
                 /\ executed[k].sql = "SELECT * FROM {full_table} LIMIT {limit_int}"
                 /\ executed[k].limit = << n >>
            /\ \A k \in 1..Len(rendered) : rendered[k].size \in { << >>, << n >> }

\* C7 witness: the limit "500" became LIMIT 100 and a fetch of 100 rows
C7_Witness ==
  /\ tool = "sample_table"
  /\ args.limit = << "5", "0", "0" >>
  /\ Len(executed) = 1
  /\ executed[1].limit = << 100 >>
  /\ rendered # << >>
  /\ rendered[1].size = << 100 >>

\* C8: describe_table and show_columns with an empty or blank table are
\* turned away with the table-name-required error: no connection is asked
\* for, whatever the schema and the catalog are.
C8_TableRequiredBeforeConnect ==
  (tool \in {"describe_table", "show_columns"} /\ Blank(args.table)) =>
    TurnedAway("Table name is required")

\* C8 witness: show_columns with a blank table and a catalog was turned away
C8_Witness ==
  /\ tool = "show_columns"
  /\ args.table = << "\t", "\n" >>
  /\ args.catalog = << "c" >>
  /\ TurnedAway("Table name is required")

\* C9: when nothing raises inside format_results: without columns it returns
\* the no-columns message and fetches nothing; with columns it fetches once,
\* at most the row limit, returns the no-results message when it fetched no
\* row, and otherwise a table whose count line has the limit note exactly
\* when the rows fetched are as many as the limit.
C9_RenderCases ==
  \A k \in 1..Len(rendered) :
    LET r == rendered[k]
        limit == FormatLimit(tool, limit_int)
    IN ~r.raised =>
         IF pending.cols = 0
         THEN r.text = "No columns returned" /\ r.fetches = 0
         ELSE /\ r.fetches = 1
              /\ r.size = << limit >>
              /\ r.count <= pending.rows
              /\ r.count = 0 \/ r.count <= limit
              /\ pending.rows = 0 => r.count = 0
              /\ IF r.count = 0
                 THEN r.text = "No results returned" /\ ~r.note
                 ELSE r.text = "table" /\ (r.note <=> r.count = limit)

\* C9 witness: more rows than the limit were there, as many as the limit
\* were fetched, and the table has the limit note
C9_Witness ==
  /\ rendered # << >>
  /\ rendered[1].text = "table"
  /\ rendered[1].note
  /\ pending.rows > rendered[1].count
  /\ rendered[1].count = FormatLimit(tool, limit_int)

\* C10 (as stated): an invocation in which a statement raised returns the
\* formatted failure block, never a block with the success marker.
C10_FailureReturnsFailureBlock ==
  (phase = "returned" /\ raised # {}) =>
    (result.marker = "error" /\ result.text = "formatted error")

\* the category of a failure block, read off its heading
BlockKind(b) ==
  CASE StartsWith(b, ConnectionBlockHead) -> "Connection"
    [] StartsWith(b, AuthenticationBlockHead) -> "Authentication"
    [] StartsWith(b, QueryBlockHead) -> "Query"
    [] StartsWith(b, GenericBlockHead) -> "Generic"
    [] OTHER -> "none"

\* the category the lowercase text of a failure falls in
KindOfText(text) ==
  IF ContainsAny(Lower(text), ConnectionWords) THEN "Connection"
  ELSE IF ContainsAny(Lower(text), AuthenticationWords) THEN "Authentication"
  ELSE IF ContainsAny(Lower(text), QueryWords) THEN "Query"
  ELSE "Generic"

\* C11 (as stated): the failure block a tool returns has the category of
\* the lowercase text of the underlying failure, whether the failure came
\* from opening the connection or from a later statement; when that text
\* holds none of the words, the block is the generic one and carries the
\* type and text of the underlying failure and the tool's context string.
C11_ClassifiedByUnderlyingFailure ==
  (phase = "returned" /\ failure # << >>) =>
    LET e == failure[1]
    IN  /\ BlockKind(block) = KindOfText(e.msg)
        /\ KindOfText(e.msg) = "Generic" =>
             block = Cat(<< GenericBlockHead, e.type, GenericBlockDetails,
                            e.msg, GenericBlockContext,
                            ContextText(tool, args), GenericBlockTail >>)

====
